---- MODULE Spec2Model ----
(***************************************************************************)
(* A model of src/bun.js/bindings/napi.h: the N-API environment            *)
(* (napi_env__: instance data, last-error record) and the reference        *)
(* (NapiRef with its NapiWeakValue, strong handle and NapiFinalizer).      *)
(***************************************************************************)
EXTENDS Integers, Sequences, FiniteSets, TLC

(***************************************************************************)
(* Bounds of the model.                                                    *)
(***************************************************************************)
\* how far outside [napi_ok .. last_status] the status inputs reach
StatusMargin == 1
\* how many finalizer invocations an environment records before cleanup() stops
MaxEnvFinalizerCalls == 2

(***************************************************************************)
(* napi_env__ : values                                                     *)
(***************************************************************************)
NULL == "nullptr"

napi_ok == 0

\* napi.h:65  constexpr napi_status last_status = napi_would_deadlock;
last_status == 21

\* napi.h:67-90
error_messages ==
    << NULL,
       "Invalid argument",
       "An object was expected",
       "A string was expected",
       "A string or symbol was expected",
       "A function was expected",
       "A number was expected",
       "A boolean was expected",
       "An array was expected",
       "Unknown failure",
       "An exception is pending",
       "The async work item was cancelled",
       "napi_escape_handle already called on scope",
       "Invalid handle scope usage",
       "Invalid callback scope usage",
       "Thread-safe function queue is full",
       "Thread-safe function handle is closing",
       "A bigint was expected",
       "A date was expected",
       "An arraybuffer was expected",
       "A detachable arraybuffer was expected",
       "Main thread would deadlock" >>

\* every napi_status the callers of setLastError are given in SpecErr
StatusSet == (napi_ok - StatusMargin) .. (last_status + StatusMargin)

\* the statuses used where the error record is only one part of the state
EdgeStatusSet == { napi_ok, 1, last_status + StatusMargin }

DataSet == { NULL, "d1" }
HintSet == { NULL, "h1" }
FinalizeSet == { NULL, "f1", "f2" }

NoRet == [ op |-> "none", status |-> napi_ok,
           info |-> [ error_code |-> napi_ok, error_message |-> NULL ],
           data |-> NULL, fired |-> FALSE ]

VARIABLES
    \* napi_env__ fields (napi.h:109-119)
    m_instanceData,
    m_instanceDataFinalizer,
    m_instanceDataFinalizerHint,
    m_extendedErrorInfo,
    \* what the last napi_env__ call returned, and the finalizer calls made so far
    ret,
    envFinalizerCalls,
    \* history of the environment: was setInstanceData ever called, how often the
    \* finalizer ran since the last setInstanceData, the argument of the most
    \* recent setLastError, whether there was one, and the message the record
    \* held when getLastErrorInfo was last entered
    everSet,
    firesSinceSet,
    lastStatus,
    everSetError,
    prevRead,
    \* NapiRef fields (napi.h:261-267) and whether the object is allocated
    refLife,
    refCount,
    strongRef,
    weakValueRef,
    finalizer,
    data,
    \* the managed heap: the heap objects not yet collected, and the state of the
    \* weak handle the reference's NapiWeakValue registered
    heapLive,
    weakImpl,
    \* the finalizer calls the reference made so far
    refFinalizerCalls,
    \* history of the reference: the count it was constructed with and the
    \* numbers of ref() and unref() calls since,
    initialCount,
    nRef,
    nUnref,
    \* the value the creator stored in the reference, and whether clear() ran
    referent,
    cleared,
    \* the arguments of the most recent setInstanceData
    lastSetArgs,
    \* what a callback entered while the destructor tears down the weak storage
    \* finds in strongRef
    seenAtWeakClear,
    \* Zig::GlobalObject: the open handle scopes, outermost first (the last one
    \* is m_currentNapiHandleScopeImpl), and the identity of the next scope
    handleScopes,
    nextScopeId,
    \* what the last toNapi / close of a scope returned, and the heap cells
    \* vended so far with the scope that was current
    napiRet,
    closeRet,
    vended,
    \* a NapiWeakValue used on its own: the last operation on it, the weak
    \* handles it has registered with the heap, the tag a callback entered
    \* during the last deregistration found, and the notifications delivered
    \* since the last operation
    slotOp,
    slotObservers,
    tagAtDeregister,
    slotNotified,
    \* FunctionRareData of each derived constructor: its cached allocation
    \* structure; what the last subclass() returned; the structures built
    allocationStructure,
    subRet,
    structuresBuilt

envVars == << m_instanceData, m_instanceDataFinalizer, m_instanceDataFinalizerHint,
              m_extendedErrorInfo, ret, envFinalizerCalls,
              everSet, firesSinceSet, lastStatus, everSetError, prevRead,
              lastSetArgs >>

instVars == << m_instanceData, m_instanceDataFinalizer, m_instanceDataFinalizerHint >>
instHist == << envFinalizerCalls, everSet, firesSinceSet, lastSetArgs >>
errHist == << lastStatus, everSetError, prevRead >>

refVars == << refLife, refCount, strongRef, weakValueRef, finalizer, data,
              heapLive, weakImpl, refFinalizerCalls, initialCount, nRef, nUnref,
              referent, cleared, seenAtWeakClear >>

refHist == << initialCount, nRef, nUnref, referent, cleared >>

scopeVars == << handleScopes, nextScopeId, napiRet, closeRet, vended >>
slotVars == << slotOp, slotObservers, tagAtDeregister, slotNotified >>
subVars == << allocationStructure, subRet, structuresBuilt >>

\* what the operations of the environment, and those of the reference, leave alone
notEnv == << refVars, scopeVars, slotVars, subVars >>
notRef == << envVars, scopeVars, slotVars, subVars >>

\* napi.h:106-119 : the field initialisers of napi_env__
EnvInit ==
    /\ m_instanceData = NULL
    /\ m_instanceDataFinalizer = NULL
    /\ m_instanceDataFinalizerHint = NULL
    /\ m_extendedErrorInfo = [ error_code |-> napi_ok, error_message |-> "" ]
    /\ ret = NoRet
    /\ envFinalizerCalls = << >>
    /\ everSet = FALSE
    /\ firesSinceSet = 0
    /\ lastStatus = napi_ok
    /\ everSetError = FALSE
    /\ prevRead = ""
    /\ lastSetArgs = [ cb |-> NULL, data |-> NULL, hint |-> NULL ]

\* cleanup() as it would be if it tested the data pointer, not the finalizer
cleanup_checksData ==
    /\ Len(envFinalizerCalls) < MaxEnvFinalizerCalls
    /\ IF m_instanceData # NULL
       THEN /\ envFinalizerCalls' = Append(envFinalizerCalls,
                    [ cb |-> m_instanceDataFinalizer,
                      data |-> m_instanceData,
                      hint |-> m_instanceDataFinalizerHint ])
            /\ firesSinceSet' = firesSinceSet + 1
            /\ ret' = [ NoRet EXCEPT !.op = "cleanup", !.fired = TRUE ]
       ELSE /\ UNCHANGED << envFinalizerCalls, firesSinceSet >>
            /\ ret' = [ NoRet EXCEPT !.op = "cleanup", !.fired = FALSE ]
    /\ UNCHANGED << instVars, m_extendedErrorInfo, everSet, lastSetArgs, errHist, notEnv >>

\* napi.h:36-41
cleanup ==
    /\ Len(envFinalizerCalls) < MaxEnvFinalizerCalls
    /\ IF m_instanceDataFinalizer # NULL
       THEN /\ envFinalizerCalls' = Append(envFinalizerCalls,
                    [ cb |-> m_instanceDataFinalizer,
                      data |-> m_instanceData,
                      hint |-> m_instanceDataFinalizerHint ])
            /\ firesSinceSet' = firesSinceSet + 1
            /\ ret' = [ NoRet EXCEPT !.op = "cleanup", !.fired = TRUE ]
       ELSE /\ UNCHANGED << envFinalizerCalls, firesSinceSet >>
            /\ ret' = [ NoRet EXCEPT !.op = "cleanup", !.fired = FALSE ]
    /\ UNCHANGED << instVars, m_extendedErrorInfo, everSet, lastSetArgs, errHist, notEnv >>

\* setInstanceData as it would be if a finalizer already registered were kept
setInstanceData_keepsFinalizer(d, fin, hint) ==
    /\ m_instanceData' = d
    /\ m_instanceDataFinalizer' = IF m_instanceDataFinalizer = NULL
                                  THEN fin
                                  ELSE m_instanceDataFinalizer
    /\ m_instanceDataFinalizerHint' = hint
    /\ everSet' = TRUE
    /\ firesSinceSet' = 0
    /\ lastSetArgs' = [ cb |-> fin, data |-> d, hint |-> hint ]
    /\ ret' = [ NoRet EXCEPT !.op = "setInstanceData" ]
    /\ UNCHANGED << m_extendedErrorInfo, envFinalizerCalls, errHist, notEnv >>

\* napi.h:43-48
setInstanceData(d, fin, hint) ==
    /\ m_instanceData' = d
    /\ m_instanceDataFinalizer' = fin
    /\ m_instanceDataFinalizerHint' = hint
    /\ everSet' = TRUE
    /\ firesSinceSet' = 0
    /\ lastSetArgs' = [ cb |-> fin, data |-> d, hint |-> hint ]
    /\ ret' = [ NoRet EXCEPT !.op = "setInstanceData" ]
    /\ UNCHANGED << m_extendedErrorInfo, envFinalizerCalls, errHist, notEnv >>

\* napi.h:50-53
getInstanceData ==
    /\ ret' = [ NoRet EXCEPT !.op = "getInstanceData", !.data = m_instanceData ]
    /\ UNCHANGED << instVars, m_extendedErrorInfo, instHist, errHist, notEnv >>

\* napi.h:55-59
setLastError(status) ==
    /\ m_extendedErrorInfo' = [ m_extendedErrorInfo EXCEPT !.error_code = status ]
    /\ ret' = [ NoRet EXCEPT !.op = "setLastError", !.status = status ]
    /\ lastStatus' = status
    /\ everSetError' = TRUE
    /\ UNCHANGED << instVars, instHist, prevRead, notEnv >>

\* the lookup as it would be with the upper bound of the range excluded
LookupMessage_exclusive(status, old) ==
    IF status >= 0 /\ status < last_status
    THEN error_messages[status + 1]
    ELSE NULL

\* the lookup as it would be if only a failure's message were stored and the
\* record's old message were kept otherwise
LookupMessage_keepsOld(status, old) ==
    IF status > 0 /\ status <= last_status
    THEN error_messages[status + 1]
    ELSE old

\* napi.h:95-100 : the message getLastErrorInfo stores for a status; old is the
\* message the record held before
LookupMessage(status, old) ==
    IF status >= 0 /\ status <= last_status
    THEN error_messages[status + 1]
    ELSE NULL

\* getLastErrorInfo() as it would be if reading the record also reset its code
getLastErrorInfo_resetsCode ==
    /\ m_extendedErrorInfo' =
          [ error_code |-> napi_ok,
            error_message |-> LookupMessage(m_extendedErrorInfo.error_code,
                                            m_extendedErrorInfo.error_message) ]
    /\ ret' = [ NoRet EXCEPT !.op = "getLastErrorInfo",
                             !.info = [ m_extendedErrorInfo' EXCEPT
                                          !.error_code = m_extendedErrorInfo.error_code ] ]
    /\ prevRead' = m_extendedErrorInfo.error_message
    /\ UNCHANGED << instVars, instHist, lastStatus, everSetError, notEnv >>

\* napi.h:63-103
getLastErrorInfo ==
    /\ m_extendedErrorInfo' =
          [ m_extendedErrorInfo EXCEPT
              !.error_message = LookupMessage(m_extendedErrorInfo.error_code,
                                              m_extendedErrorInfo.error_message) ]
    /\ ret' = [ NoRet EXCEPT !.op = "getLastErrorInfo", !.info = m_extendedErrorInfo' ]
    /\ prevRead' = m_extendedErrorInfo.error_message
    /\ UNCHANGED << instVars, instHist, lastStatus, everSetError, notEnv >>

(***************************************************************************)
(* NapiRef : values and the managed heap                                   *)
(***************************************************************************)
\* the largest count a reference is constructed with
MaxInitialCount == 2
\* how many ref() calls one reference receives; refCount is a uint32_t
\* (napi.h:267) and stays below MaxInitialCount + MaxRefCalls, far from 2^32
MaxRefCalls == 3
\* how many finalizer invocations a reference records
MaxRefFinalizerCalls == 2

\* JSC::JSValue() : the empty value
Empty == "empty"
Primitives == { "p1", "p2" }
Cells == { "c1" }
Strings == { "s1" }
HeapObjects == Cells \cup Strings
ValueSet == Primitives \cup HeapObjects

\* napi.h:141-147 : finalize_cb has no initialiser, so a NapiFinalizer that was
\* only default-constructed holds an indeterminate callback
Indeterminate == "indeterminate"
RefFinalizeSet == { NULL, "fin" }
RefData == "refdata"
RefHint == "refhint"

\* napi.h:205-210, 212-226 : NapiWeakValue() = default
NotSetWeakValue == [ m_tag |-> "NotSet", m_value |-> Empty ]

\* seenAtWeakClear before any destructor ran
NotTornDown == "not torn down"

RefInit ==
    /\ refLife = "unallocated"
    /\ refCount = 0
    /\ strongRef = Empty
    /\ weakValueRef = NotSetWeakValue
    /\ finalizer = [ finalize_hint |-> NULL, finalize_cb |-> NULL ]
    /\ data = NULL
    /\ heapLive = HeapObjects
    /\ weakImpl = "None"
    /\ refFinalizerCalls = << >>
    /\ initialCount = 0
    /\ nRef = 0
    /\ nUnref = 0
    /\ referent = Empty
    /\ cleared = FALSE
    /\ seenAtWeakClear = NotTornDown

\* JSC::Weak<T>::get() : the target while the handle is live and the target has
\* not been collected, else null
Weak_get(target) ==
    IF weakImpl = "Live" /\ target \in heapLive THEN target ELSE Empty

\* get() as it would be if the Cell case were missing
NapiWeakValue_get_cellLost(w) ==
    CASE w.m_tag = "Primitive" -> w.m_value
      [] w.m_tag = "String" -> Weak_get(w.m_value)
      [] OTHER -> Empty

\* get() as it would be if it returned the stored target without asking the
\* weak handle
NapiWeakValue_get_raw(w) ==
    CASE w.m_tag = "Primitive" -> w.m_value
      [] w.m_tag = "Cell" -> w.m_value
      [] w.m_tag = "String" -> w.m_value
      [] OTHER -> Empty

\* get() as it would be if the Primitive case were missing
NapiWeakValue_get_noPrimitive(w) ==
    CASE w.m_tag = "Cell" -> Weak_get(w.m_value)
      [] w.m_tag = "String" -> Weak_get(w.m_value)
      [] OTHER -> Empty

\* napi.h:172-184
NapiWeakValue_get(w) ==
    CASE w.m_tag = "Primitive" -> w.m_value
      [] w.m_tag = "Cell" -> Weak_get(w.m_value)
      [] w.m_tag = "String" -> Weak_get(w.m_value)
      [] OTHER -> Empty

\* value() as it would be if it always read the strong storage
value_strongOnly ==
    [ from |-> "strongRef", val |-> strongRef ]

\* value() as it would be if a count of 1 still selected the weak slot
value_offByOne ==
    IF refCount <= 1
    THEN [ from |-> "weakValueRef", val |-> NapiWeakValue_get(weakValueRef) ]
    ELSE [ from |-> "strongRef", val |-> strongRef ]

\* napi.h:244-251 : the value and the storage it was read from
value ==
    IF refCount = 0
    THEN [ from |-> "weakValueRef", val |-> NapiWeakValue_get(weakValueRef) ]
    ELSE [ from |-> "strongRef", val |-> strongRef ]

\* the constructor as it would be without the refCount(count) initialiser: the
\* member initialiser refCount = 0 (napi.h:267) stands
NapiRef_ignoresCount(count) ==
    /\ refLife = "unallocated"
    /\ refLife' = "constructed"
    /\ refCount' = 0
    /\ strongRef' = Empty
    /\ weakValueRef' = NotSetWeakValue
    /\ weakImpl' = "None"
    /\ finalizer' = [ finalize_hint |-> NULL, finalize_cb |-> Indeterminate ]
    /\ data' = NULL
    /\ initialCount' = count
    /\ nRef' = 0
    /\ nUnref' = 0
    /\ UNCHANGED << heapLive, refFinalizerCalls, referent, cleared, seenAtWeakClear, notRef >>

\* napi.h:237-242, with the member initialisers of napi.h:261-267
NapiRef(count) ==
    /\ refLife = "unallocated"
    /\ refLife' = "constructed"
    /\ refCount' = count
    /\ strongRef' = Empty
    /\ weakValueRef' = NotSetWeakValue
    /\ weakImpl' = "None"
    /\ finalizer' = [ finalize_hint |-> NULL, finalize_cb |-> Indeterminate ]
    /\ data' = NULL
    /\ initialCount' = count
    /\ nRef' = 0
    /\ nUnref' = 0
    /\ UNCHANGED << heapLive, refFinalizerCalls, referent, cleared, seenAtWeakClear, notRef >>

\* NapiWeakValue::set(JSValue, WeakHandleOwner&, void*) : the slot after the
\* prior state is cleared and v is stored under the tag of its category
NapiWeakValue_set(v) ==
    CASE v \in Strings -> [ m_tag |-> "String", m_value |-> v ]
      [] v \in Cells -> [ m_tag |-> "Cell", m_value |-> v ]
      [] OTHER -> [ m_tag |-> "Primitive", m_value |-> v ]

\* the weak handle NapiWeakValue::set registers with the heap: one for a heap
\* object, none for a primitive
WeakImpl_for(v) == IF v \in HeapObjects THEN "Live" ELSE "None"

\* NapiFinalizer::call(env, data) : the calls made once it returns; the class
\* keeps no record of having fired (napi.h:141-147)
NapiFinalizer_call(f, d) ==
    IF f.finalize_cb # NULL
    THEN Append(refFinalizerCalls,
                [ cb |-> f.finalize_cb, data |-> d, hint |-> f.finalize_hint ])
    ELSE refFinalizerCalls

\* the creator of a reference stores the value, the finalizer and the data in
\* the freshly constructed object: strong storage when the count is positive,
\* the weak slot always
setValue(v, cb) ==
    /\ refLife = "constructed"
    /\ v \in Primitives \/ v \in heapLive
    /\ refLife' = "live"
    /\ strongRef' = IF refCount > 0 THEN v ELSE strongRef
    /\ weakValueRef' = NapiWeakValue_set(v)
    /\ weakImpl' = WeakImpl_for(v)
    /\ finalizer' = [ finalize_hint |-> RefHint, finalize_cb |-> cb ]
    /\ data' = RefData
    /\ referent' = v
    /\ UNCHANGED << refCount, heapLive, refFinalizerCalls, initialCount, nRef, nUnref,
                    cleared, seenAtWeakClear, notRef >>

\* NapiRef::ref() : increment; on the transition from 0 the strong storage is
\* filled from the weak slot's current value
ref ==
    /\ refLife = "live"
    /\ nRef < MaxRefCalls
    /\ refCount' = refCount + 1
    /\ strongRef' = IF refCount = 0 THEN NapiWeakValue_get(weakValueRef) ELSE strongRef
    /\ nRef' = nRef + 1
    /\ UNCHANGED << refLife, weakValueRef, finalizer, data, heapLive, weakImpl,
                    refFinalizerCalls, initialCount, nUnref, referent, cleared, seenAtWeakClear, notRef >>

\* NapiRef::unref() : decrement; on reaching 0 weak tracking is re-established
\* on the current value and the strong storage is dropped
unref ==
    /\ refLife = "live"
    /\ refCount > 0
    /\ refCount' = refCount - 1
    /\ IF refCount = 1
       THEN /\ strongRef' = Empty
            /\ IF strongRef # Empty
               THEN /\ weakValueRef' = NapiWeakValue_set(strongRef)
                    /\ weakImpl' = WeakImpl_for(strongRef)
               ELSE UNCHANGED << weakValueRef, weakImpl >>
       ELSE UNCHANGED << strongRef, weakValueRef, weakImpl >>
    /\ nUnref' = nUnref + 1
    /\ UNCHANGED << refLife, finalizer, data, heapLive, refFinalizerCalls,
                    initialCount, nRef, referent, cleared, seenAtWeakClear, notRef >>

\* NapiRef::clear() : strong storage is dropped, then weak storage, then the
\* Finalizer is invoked with the retained data pointer
clear ==
    /\ refLife = "live"
    /\ Len(refFinalizerCalls) < MaxRefFinalizerCalls
    /\ strongRef' = Empty
    /\ weakValueRef' = NotSetWeakValue
    /\ weakImpl' = "None"
    /\ refFinalizerCalls' = NapiFinalizer_call(finalizer, data)
    /\ cleared' = TRUE
    /\ UNCHANGED << refLife, refCount, finalizer, data, heapLive,
                    initialCount, nRef, nUnref, referent, seenAtWeakClear, notRef >>

\* TRUE when a stands before b in the sequence order
Precedes(order, a, b) ==
    \E i, j \in 1 .. Len(order) : i < j /\ order[i] = a /\ order[j] = b

\* the destructor as it would be with the two clear() calls exchanged
DestructorOrder_weakFirst == << "weakValueRef", "strongRef" >>

\* napi.h:255, 258 : the members ~NapiRef clears, in the order it clears them
DestructorOrder == << "strongRef", "weakValueRef" >>

\* napi.h:253-259
NapiRef_destructor ==
    /\ refLife \in { "constructed", "live" }
    /\ refLife' = "deleted"
    /\ strongRef' = Empty
    /\ weakValueRef' = NotSetWeakValue
    /\ weakImpl' = "None"
    /\ seenAtWeakClear' = IF Precedes(DestructorOrder, "strongRef", "weakValueRef")
                          THEN Empty
                          ELSE strongRef
    /\ UNCHANGED << refCount, finalizer, data, heapLive, refFinalizerCalls,
                    refHist, notRef >>

Range(seq) == { seq[i] : i \in 1 .. Len(seq) }

\* the heap cells the open handle scopes retain
RetainedByScopes == UNION { Range(handleScopes[i].values) : i \in 1 .. Len(handleScopes) }

\* the collector reclaims a heap object that nothing retains strongly
Collect(o) ==
    /\ o \in heapLive
    /\ strongRef # o
    /\ o \notin RetainedByScopes
    /\ heapLive' = heapLive \ { o }
    /\ UNCHANGED << refLife, refCount, strongRef, weakValueRef, finalizer, data,
                    weakImpl, refFinalizerCalls, refHist, seenAtWeakClear, notRef >>

\* the heap's one notification for a live weak handle whose target was
\* collected: the reference's weak callback invokes the Finalizer and the
\* reference's storage is torn down
WeakNotify ==
    /\ refLife = "live"
    /\ weakImpl = "Live"
    /\ weakValueRef.m_value \notin heapLive
    /\ Len(refFinalizerCalls) < MaxRefFinalizerCalls
    /\ refFinalizerCalls' = NapiFinalizer_call(finalizer, data)
    /\ strongRef' = Empty
    /\ weakValueRef' = NotSetWeakValue
    /\ weakImpl' = "None"
    /\ UNCHANGED << refLife, refCount, finalizer, data, heapLive, refHist, seenAtWeakClear, notRef >>


(***************************************************************************)
(* Handle scopes, the NapiWeakValue on its own, and NapiPrototype::subclass *)
(***************************************************************************)
\* how many handle scopes are opened, and how many values one scope is given
MaxScopes == 2
MaxScopeValues == 2
\* how many structures subclass() builds
MaxStructures == 3

NoScope == 0

\* the status a mismatched close of a handle scope is reported with
\* (napi_handle_scope_mismatch: "Invalid handle scope usage", napi.h:81)
napi_handle_scope_mismatch == 13
NoNapiRet == [ op |-> "none", val |-> Empty, handle |-> [ bits |-> Empty ],
               scope |-> NoScope, appended |-> FALSE ]
NoCloseRet == [ op |-> "none", scope |-> NoScope, status |-> napi_ok ]

ScopeInit ==
    /\ handleScopes = << >>
    /\ nextScopeId = 1
    /\ napiRet = NoNapiRet
    /\ closeRet = NoCloseRet
    /\ vended = { }

SlotInit ==
    /\ slotOp = [ op |-> "none", arg |-> Empty ]
    /\ slotObservers = 0
    /\ tagAtDeregister = "none"
    /\ slotNotified = 0

NewTargets == { "DerivedA", "DerivedB" }
GlobalObjects == { "global1", "global2" }
NoStructure == [ id |-> 0, classInfo |-> NULL, globalObject |-> NULL ]

\* the class identity of the binding, this->structure()->classInfoForCells(),
\* and that of another internal function class
ThisClassInfo == "NapiPrototype"
OtherClassInfo == "OtherInternalFunction"

NoSubRet == [ op |-> "none", target |-> NULL, globalObject |-> NULL, threw |-> FALSE,
              reused |-> FALSE, structure |-> NoStructure ]

SubInit ==
    /\ allocationStructure = [ t \in NewTargets |-> NoStructure ]
    /\ subRet = NoSubRet
    /\ structuresBuilt = 0

\* JSValue::isCell()
isCell(val) == val \in HeapObjects

\* napi.h:138 : JSValue::encode and the cast to napi_value keep the bits
JSValue_encode(val) == [ bits |-> val ]

\* napi.h:126-129
toJS(handle) == handle.bits

\* m_currentNapiHandleScopeImpl.get() (napi.h:134) : the innermost open scope
CurrentScope == IF Len(handleScopes) = 0 THEN NoScope
                ELSE handleScopes[Len(handleScopes)].id

\* NapiHandleScopeImpl::append : the scopes once val is appended to number i
ScopeAppend(i, val) ==
    [ handleScopes EXCEPT ![i].values = Append(handleScopes[i].values, val) ]

\* toNapi as it would be without the isCell() test
toNapi_appendsAll(val) ==
    /\ val \in Primitives \/ val \in heapLive
    /\ Len(handleScopes) > 0 =>
          Len(handleScopes[Len(handleScopes)].values) < MaxScopeValues
    /\ handleScopes' = IF Len(handleScopes) > 0
                       THEN ScopeAppend(Len(handleScopes), val)
                       ELSE handleScopes
    /\ vended' = IF isCell(val) /\ Len(handleScopes) > 0
                 THEN vended \cup { << CurrentScope, val >> }
                 ELSE vended
    /\ napiRet' = [ op |-> "toNapi", val |-> val, handle |-> JSValue_encode(val),
                    scope |-> CurrentScope, appended |-> handleScopes' # handleScopes ]
    /\ UNCHANGED << nextScopeId, closeRet, envVars, refVars, slotVars, subVars >>

\* toNapi as it would be if it appended to the outermost scope
toNapi_outermost(val) ==
    /\ val \in Primitives \/ val \in heapLive
    /\ (isCell(val) /\ Len(handleScopes) > 0) =>
          Len(handleScopes[1].values) < MaxScopeValues
    /\ handleScopes' = IF isCell(val) /\ Len(handleScopes) > 0
                       THEN ScopeAppend(1, val)
                       ELSE handleScopes
    /\ vended' = IF isCell(val) /\ Len(handleScopes) > 0
                 THEN vended \cup { << CurrentScope, val >> }
                 ELSE vended
    /\ napiRet' = [ op |-> "toNapi", val |-> val, handle |-> JSValue_encode(val),
                    scope |-> CurrentScope, appended |-> handleScopes' # handleScopes ]
    /\ UNCHANGED << nextScopeId, closeRet, envVars, refVars, slotVars, subVars >>

\* napi.h:131-139
toNapi(val) ==
    /\ val \in Primitives \/ val \in heapLive
    /\ (isCell(val) /\ Len(handleScopes) > 0) =>
          Len(handleScopes[Len(handleScopes)].values) < MaxScopeValues
    /\ handleScopes' = IF isCell(val) /\ Len(handleScopes) > 0
                       THEN ScopeAppend(Len(handleScopes), val)
                       ELSE handleScopes
    /\ vended' = IF isCell(val) /\ Len(handleScopes) > 0
                 THEN vended \cup { << CurrentScope, val >> }
                 ELSE vended
    /\ napiRet' = [ op |-> "toNapi", val |-> val, handle |-> JSValue_encode(val),
                    scope |-> CurrentScope, appended |-> handleScopes' # handleScopes ]
    /\ UNCHANGED << nextScopeId, closeRet, envVars, refVars, slotVars, subVars >>

\* opening a handle scope: the current scope becomes its parent
openScope ==
    /\ nextScopeId <= MaxScopes
    /\ handleScopes' = Append(handleScopes, [ id |-> nextScopeId, values |-> << >> ])
    /\ nextScopeId' = nextScopeId + 1
    /\ UNCHANGED << napiRet, closeRet, vended, envVars, refVars, slotVars, subVars >>

\* closing as it would be if a close of a scope that is not current were accepted
closeScope_silent(id) ==
    /\ id < nextScopeId
    /\ IF Len(handleScopes) > 0 /\ handleScopes[Len(handleScopes)].id = id
       THEN handleScopes' = SubSeq(handleScopes, 1, Len(handleScopes) - 1)
       ELSE UNCHANGED handleScopes
    /\ closeRet' = [ op |-> "close", scope |-> id, status |-> napi_ok ]
    /\ UNCHANGED << nextScopeId, napiRet, vended, envVars, refVars, slotVars, subVars >>

\* closing the handle scope id: the current scope is detached with all its
\* values and its parent is current again; a scope that is not the current
\* one (closed before, or not innermost) is a usage error and nothing changes
closeScope(id) ==
    /\ id < nextScopeId
    /\ IF Len(handleScopes) > 0 /\ handleScopes[Len(handleScopes)].id = id
       THEN /\ handleScopes' = SubSeq(handleScopes, 1, Len(handleScopes) - 1)
            /\ closeRet' = [ op |-> "close", scope |-> id, status |-> napi_ok ]
       ELSE /\ UNCHANGED handleScopes
            /\ closeRet' = [ op |-> "close", scope |-> id,
                             status |-> napi_handle_scope_mismatch ]
    /\ UNCHANGED << nextScopeId, napiRet, vended, envVars, refVars, slotVars, subVars >>

\* the fields of a reference other than its weak slot
refRest == << refLife, refCount, strongRef, finalizer, data, refFinalizerCalls,
              refHist, seenAtWeakClear >>

\* what everything but the NapiWeakValue and the heap consists of
notSlot == << refRest, envVars, scopeVars, subVars >>

\* the slot holds a weak handle
IsWeakTag(tag) == tag \in { "Cell", "String" }

\* NapiWeakValue::clear() : for a Cell or a String the weak handle is cleared,
\* which deregisters the observation, and the tag is set to NotSet after that
ClearOrder == << "weak", "m_tag" >>

\* the tag the slot shows while clear() deregisters the observation of the
\* slot (the last such tag, when the slot holds no weak handle now)
TagWhileDeregistering ==
    IF IsWeakTag(weakValueRef.m_tag)
    THEN IF Precedes(ClearOrder, "m_tag", "weak") THEN "NotSet" ELSE weakValueRef.m_tag
    ELSE tagAtDeregister

\* the observations registered for the slot once clear() has run
ObserversAfterClear ==
    IF IsWeakTag(weakValueRef.m_tag) THEN slotObservers - 1 ELSE slotObservers

\* NapiWeakValue::clear()
NapiWeakValue_clear ==
    /\ refLife = "unallocated"
    /\ weakValueRef' = NotSetWeakValue
    /\ weakImpl' = "None"
    /\ slotObservers' = ObserversAfterClear
    /\ tagAtDeregister' = TagWhileDeregistering
    /\ slotNotified' = 0
    /\ slotOp' = [ op |-> "clear", arg |-> Empty ]
    /\ UNCHANGED << heapLive, notSlot >>

\* NapiWeakValue::setPrimitive(JSValue) : the prior state is cleared, the
\* value is stored inline and nothing is registered with the heap
setPrimitive(p) ==
    /\ refLife = "unallocated"
    /\ weakValueRef' = [ m_tag |-> "Primitive", m_value |-> p ]
    /\ weakImpl' = "None"
    /\ slotObservers' = ObserversAfterClear
    /\ tagAtDeregister' = TagWhileDeregistering
    /\ slotNotified' = 0
    /\ slotOp' = [ op |-> "setPrimitive", arg |-> p ]
    /\ UNCHANGED << heapLive, notSlot >>

\* NapiWeakValue::setCell(JSCell*, WeakHandleOwner&, void*) : the prior state
\* is cleared, then one weak observation of the cell is registered
setCell(c) ==
    /\ refLife = "unallocated"
    /\ c \in heapLive
    /\ weakValueRef' = [ m_tag |-> "Cell", m_value |-> c ]
    /\ weakImpl' = "Live"
    /\ slotObservers' = ObserversAfterClear + 1
    /\ tagAtDeregister' = TagWhileDeregistering
    /\ slotNotified' = 0
    /\ slotOp' = [ op |-> "setCell", arg |-> c ]
    /\ UNCHANGED << heapLive, notSlot >>

\* NapiWeakValue::setString(JSString*, WeakHandleOwner&, void*)
setString(str) ==
    /\ refLife = "unallocated"
    /\ str \in heapLive
    /\ weakValueRef' = [ m_tag |-> "String", m_value |-> str ]
    /\ weakImpl' = "Live"
    /\ slotObservers' = ObserversAfterClear + 1
    /\ tagAtDeregister' = TagWhileDeregistering
    /\ slotNotified' = 0
    /\ slotOp' = [ op |-> "setString", arg |-> str ]
    /\ UNCHANGED << heapLive, notSlot >>

\* NapiWeakValue::set(JSValue, WeakHandleOwner&, void*) : the setter that
\* fits the value
set(v) ==
    /\ refLife = "unallocated"
    /\ v \in Primitives \/ v \in heapLive
    /\ weakValueRef' = NapiWeakValue_set(v)
    /\ weakImpl' = WeakImpl_for(v)
    /\ slotObservers' = ObserversAfterClear + (IF v \in HeapObjects THEN 1 ELSE 0)
    /\ tagAtDeregister' = TagWhileDeregistering
    /\ slotNotified' = 0
    /\ slotOp' = [ op |-> "set", arg |-> v ]
    /\ UNCHANGED << heapLive, notSlot >>

\* WeakHandleOwner::finalize : the heap's one notification for the slot's
\* observation once the target was collected; the handle is dead after it
\* and stays registered until the slot is cleared
WeakHandleOwner_finalize ==
    /\ refLife = "unallocated"
    /\ weakImpl = "Live"
    /\ IsWeakTag(weakValueRef.m_tag)
    /\ weakValueRef.m_value \notin heapLive
    /\ weakImpl' = "Dead"
    /\ slotNotified' = slotNotified + 1
    /\ UNCHANGED << weakValueRef, heapLive, slotOp, slotObservers, tagAtDeregister,
                    notSlot >>

\* what everything but the allocation structures consists of
notSub == << envVars, refVars, scopeVars, slotVars >>

\* napi.h:378 as it would be without the comparison of the global objects
CacheHit_ignoresGlobal(structure, globalObject) ==
    /\ structure # NoStructure
    /\ structure.classInfo = ThisClassInfo

\* napi.h:378 : the cached structure can be used for this request
CacheHit(structure, globalObject) ==
    /\ structure # NoStructure
    /\ structure.classInfo = ThisClassInfo
    /\ structure.globalObject = globalObject

\* FunctionRareData::createInternalFunctionAllocationStructureFromBase : a
\* structure derived from the base structure, for globalObject
NewStructure(classInfo, globalObject) ==
    [ id |-> structuresBuilt + 1, classInfo |-> classInfo, globalObject |-> globalObject ]

\* napi.h:367-386 ; threw: reading newTarget.prototype raised an exception
subclass(globalObject, newTarget, threw) ==
    IF threw
    THEN /\ subRet' = [ op |-> "subclass", target |-> newTarget,
                        globalObject |-> globalObject, threw |-> TRUE,
                        reused |-> FALSE, structure |-> NoStructure ]
         /\ UNCHANGED << allocationStructure, structuresBuilt, notSub >>
    ELSE IF CacheHit(allocationStructure[newTarget], globalObject)
    THEN /\ subRet' = [ op |-> "subclass", target |-> newTarget,
                        globalObject |-> globalObject, threw |-> FALSE,
                        reused |-> TRUE, structure |-> allocationStructure[newTarget] ]
         /\ UNCHANGED << allocationStructure, structuresBuilt, notSub >>
    ELSE /\ structuresBuilt < MaxStructures
         /\ allocationStructure' =
               [ allocationStructure EXCEPT
                    ![newTarget] = NewStructure(ThisClassInfo, globalObject) ]
         /\ structuresBuilt' = structuresBuilt + 1
         /\ subRet' = [ op |-> "subclass", target |-> newTarget,
                        globalObject |-> globalObject, threw |-> FALSE,
                        reused |-> FALSE,
                        structure |-> NewStructure(ThisClassInfo, globalObject) ]
         /\ UNCHANGED notSub

\* InternalFunction::createSubclassStructure for another base class, the
\* other writer of the cache that napi.h:377 reads: newTarget is constructed
\* through another internal function and its cached structure replaced
otherSubclass(globalObject, newTarget) ==
    /\ structuresBuilt < MaxStructures
    /\ allocationStructure' =
          [ allocationStructure EXCEPT
               ![newTarget] = NewStructure(OtherClassInfo, globalObject) ]
    /\ structuresBuilt' = structuresBuilt + 1
    /\ UNCHANGED << subRet, notSub >>

vars == << envVars, refVars, scopeVars, slotVars, subVars >>

Init == EnvInit /\ RefInit /\ ScopeInit /\ SlotInit /\ SubInit

\* the error record alone, over every status
NextErr ==
    \/ \E status \in StatusSet : setLastError(status)
    \/ getLastErrorInfo

SpecErr == Init /\ [][NextErr]_vars

\* every operation of napi_env__
NextEnv ==
    \/ cleanup
    \/ \E d \in DataSet, fin \in FinalizeSet, hint \in HintSet :
          setInstanceData(d, fin, hint)
    \/ getInstanceData
    \/ \E status \in EdgeStatusSet : setLastError(status)
    \/ getLastErrorInfo

SpecEnv == Init /\ [][NextEnv]_vars

\* one reference, from construction to teardown, and the collector
NextRef ==
    \/ \E count \in 0 .. MaxInitialCount : NapiRef(count)
    \/ \E v \in ValueSet, cb \in RefFinalizeSet : setValue(v, cb)
    \/ ref
    \/ unref
    \/ clear
    \/ NapiRef_destructor
    \/ \E o \in HeapObjects : Collect(o)
    \/ WeakNotify

SpecRef == Init /\ [][NextRef]_vars

\* handle scopes, the values vended through toNapi, and the collector
NextScope ==
    \/ openScope
    \/ \E id \in 1 .. MaxScopes : closeScope(id)
    \/ \E val \in ValueSet : toNapi(val)
    \/ \E o \in HeapObjects : Collect(o)

SpecScope == Init /\ [][NextScope]_vars

\* a NapiWeakValue on its own, with the collector and the heap's notification
NextSlot ==
    \/ NapiWeakValue_clear
    \/ \E p \in Primitives : setPrimitive(p)
    \/ \E c \in Cells : setCell(c)
    \/ \E str \in Strings : setString(str)
    \/ \E v \in ValueSet : set(v)
    \/ \E o \in HeapObjects : Collect(o)
    \/ WeakHandleOwner_finalize

SpecSlot == Init /\ [][NextSlot]_vars

\* NapiPrototype::subclass and the other user of the structure cache
NextSub ==
    \/ \E g \in GlobalObjects, t \in NewTargets, threw \in BOOLEAN : subclass(g, t, threw)
    \/ \E g \in GlobalObjects, t \in NewTargets : otherSubclass(g, t)

SpecSub == Init /\ [][NextSub]_vars

(***************************************************************************)
(* Properties of the reference, under SpecRef.                             *)
(***************************************************************************)
Allocated == refLife \in { "constructed", "live" }

\* C1: a reference constructed with count c that has received n ref() calls and
\* m unref() calls (unref() is never taken at count 0) has
\* refCount = c + n - m, which is never negative.
C1_RefCountIsBalance ==
    refLife # "unallocated" =>
        /\ refCount = initialCount + nRef - nUnref
        /\ refCount >= 0

C1_Witness ==
    /\ refLife = "live"
    /\ initialCount = 1
    /\ nRef = 2
    /\ nUnref = 2
    /\ refCount = 1

\* C2, as claimed: in every state of an allocated reference refCount > 0 holds
\* exactly when strongRef holds the referenced value.
C2_StrongIffCounted ==
    Allocated => ((refCount > 0) <=> (strongRef # Empty /\ strongRef = referent))

\* C2, amended: refCount = 0 implies that the strong storage is empty and
\* value() is the weak slot's value; a non-empty strongRef implies refCount > 0
\* and is the referenced value. (refCount > 0 with an empty strongRef occurs
\* before the value is stored and after ref() on a collected target.)
C2_StrongOnlyWhileCounted ==
    Allocated =>
        /\ refCount = 0 =>
              /\ strongRef = Empty
              /\ value.val = NapiWeakValue_get(weakValueRef)
        /\ strongRef # Empty => (refCount > 0 /\ strongRef = referent)

C2_Witness ==
    /\ refLife = "live"
    /\ refCount = 0
    /\ nUnref >= 1
    /\ strongRef = Empty
    /\ referent \in HeapObjects
    /\ value.val = referent

\* C3: value() reads the weak slot (whose value may be the empty one) exactly
\* when refCount = 0 and reads the strong storage whenever refCount >= 1.
C3_ValueSelectsStorage ==
    Allocated =>
        /\ (value.from = "weakValueRef") <=> (refCount = 0)
        /\ (value.from = "strongRef") <=> (refCount >= 1)
        /\ refCount = 0 => value.val = NapiWeakValue_get(weakValueRef)
        /\ refCount >= 1 => value.val = strongRef

C3_Witness ==
    /\ refLife = "live"
    /\ refCount = 1
    /\ nRef >= 1
    /\ value.from = "strongRef"
    /\ value.val = referent
    /\ referent \in HeapObjects

C5_DestroyFiresOnce ==
    ((refLife = "deleted" \/ cleared) /\ finalizer.finalize_cb \in { "fin" }) =>
        /\ strongRef = Empty
        /\ weakValueRef = NotSetWeakValue
        /\ Len(refFinalizerCalls) = 1
        /\ refFinalizerCalls[1] =
              [ cb |-> finalizer.finalize_cb, data |-> data,
                hint |-> finalizer.finalize_hint ]

(***************************************************************************)
(* Properties of the environment, under SpecEnv and SpecErr.               *)
(***************************************************************************)
\* C6: after setInstanceData, however often cleanup() is called, the
\* instance-data finalizer runs at most once.
C6_CleanupFiresOnce ==
    firesSinceSet <= 1

\* C7, as claimed: whether cleanup() runs the finalizer is decided by instance
\* data having been set.
C7_FiresIffEverSet ==
    ret.op = "cleanup" => (ret.fired <=> everSet)

\* C7, amended: cleanup() runs the finalizer exactly when the finalizer stored
\* by the most recent setInstanceData is not null, whatever the data pointer;
\* it runs none on an environment where setInstanceData was never called.
C7_FiresIffFinalizerSet ==
    ret.op = "cleanup" =>
        /\ ret.fired <=> (m_instanceDataFinalizer # NULL)
        /\ ret.fired =>
              /\ everSet
              /\ envFinalizerCalls[Len(envFinalizerCalls)] =
                    [ cb |-> m_instanceDataFinalizer,
                      data |-> m_instanceData,
                      hint |-> m_instanceDataFinalizerHint ]
        /\ ~everSet => (~ret.fired /\ envFinalizerCalls = << >>)

C7_Witness ==
    /\ ret.op = "cleanup"
    /\ ret.fired
    /\ m_instanceData = NULL
    /\ envFinalizerCalls[Len(envFinalizerCalls)].data = NULL

\* C8: getLastErrorInfo() after setLastError(s) returns error_code = s, with
\* the table's message for s when napi_ok <= s <= napi_would_deadlock and a
\* null message for every other s.
C8_InfoByRange ==
    (ret.op = "getLastErrorInfo" /\ everSetError) =>
        /\ ret.info.error_code = lastStatus
        /\ IF lastStatus \in napi_ok .. last_status
           THEN ret.info.error_message = error_messages[lastStatus + 1]
           ELSE ret.info.error_message = NULL
        /\ lastStatus = 1 => ret.info.error_message = "Invalid argument"
        /\ lastStatus = last_status =>
              ret.info.error_message = "Main thread would deadlock"

C8_Witness ==
    /\ ret.op = "getLastErrorInfo"
    /\ everSetError
    /\ lastStatus = last_status
    /\ ret.info = [ error_code |-> last_status,
                    error_message |-> "Main thread would deadlock" ]

\* C9: what getLastErrorInfo() reports belongs to the most recent setLastError
\* alone: the code is that call's, the message is null once napi_ok was
\* recorded, and it equals the message left by the earlier read only where
\* that is the table's message for the current code.
C9_NoStaleMessage ==
    ret.op = "getLastErrorInfo" =>
        /\ ret.info.error_code = lastStatus
        /\ lastStatus = napi_ok => ret.info.error_message = NULL
        /\ ret.info.error_message = prevRead =>
              prevRead = ( IF lastStatus \in napi_ok .. last_status
                           THEN error_messages[lastStatus + 1]
                           ELSE NULL )

C9_Witness ==
    /\ ret.op = "getLastErrorInfo"
    /\ everSetError
    /\ lastStatus = napi_ok
    /\ prevRead = "Invalid argument"
    /\ ret.info.error_message = NULL

\* C10, as claimed: only setLastError changes the stored error record.
C10_OnlySetLastErrorMutates ==
    [][ m_extendedErrorInfo' # m_extendedErrorInfo => ret'.op = "setLastError" ]_vars

\* C10, amended: only setLastError changes the stored code, and it leaves the
\* stored message alone; only getLastErrorInfo changes the stored message, and
\* it leaves the code alone; setInstanceData, getInstanceData and cleanup
\* leave both fields unchanged.
C10_ErrorRecordFrame ==
    [][ /\ m_extendedErrorInfo'.error_code # m_extendedErrorInfo.error_code
            => ret'.op = "setLastError"
        /\ m_extendedErrorInfo'.error_message # m_extendedErrorInfo.error_message
            => ret'.op = "getLastErrorInfo"
        /\ ret'.op \in { "setInstanceData", "getInstanceData", "cleanup" }
            => m_extendedErrorInfo' = m_extendedErrorInfo ]_vars

C10_Witness ==
    /\ ret.op = "getLastErrorInfo"
    /\ everSet
    /\ m_extendedErrorInfo.error_message # prevRead
    /\ m_extendedErrorInfo.error_code = lastStatus

-----------------------------------------------------------------------------
\* Handle scopes

\* C11 as stated: with a scope open, toNapi appends every value it is given,
\* a primitive included; with no scope open it appends nothing and returns
\* the handle
C11_EveryValueAppended ==
    napiRet.op = "toNapi" =>
        /\ napiRet.handle = JSValue_encode(napiRet.val)
        /\ napiRet.appended <=> napiRet.scope # NoScope

\* C11: toNapi appends the value to the current scope exactly when a scope
\* is open and the value is a heap cell (a primitive is never appended); in
\* every case it returns the handle that encodes the value, and toJS of the
\* handle is the value
C11_OnlyCellsAppended ==
    napiRet.op = "toNapi" =>
        /\ napiRet.handle = JSValue_encode(napiRet.val)
        /\ toJS(napiRet.handle) = napiRet.val
        /\ napiRet.appended <=> (napiRet.scope # NoScope /\ isCell(napiRet.val))

\* a primitive was converted while a scope was open, and was not appended
C11_Witness ==
    /\ napiRet.op = "toNapi"
    /\ napiRet.val \in Primitives
    /\ napiRet.scope # NoScope
    /\ ~ napiRet.appended
    /\ napiRet.handle = JSValue_encode(napiRet.val)

\* the scope stack is well formed, an open scope retains exactly the cells
\* vended while it was current, and what a scope retains is alive
ScopesRetainTheirOwn ==
    /\ \A i, j \in 1 .. Len(handleScopes) :
          i < j => handleScopes[i].id < handleScopes[j].id
    /\ \A i \in 1 .. Len(handleScopes) : \A v \in ValueSet :
          v \in Range(handleScopes[i].values)
              <=> << handleScopes[i].id, v >> \in vended
    /\ RetainedByScopes \subseteq heapLive
    /\ \A o \in HeapObjects : o \in RetainedByScopes => ~ ENABLED Collect(o)

\* a close that succeeds detaches the current scope alone, with all its
\* values, and leaves its parent current with the parent's values intact
CloseRestoresParent ==
    (closeRet' # closeRet /\ closeRet'.status = napi_ok) =>
        /\ Len(handleScopes) > 0
        /\ closeRet'.scope = handleScopes[Len(handleScopes)].id
        /\ handleScopes' = SubSeq(handleScopes, 1, Len(handleScopes) - 1)

\* C12: scopes form a stack; a value vended while a scope is current is
\* retained by that scope, and only by it, until that scope is closed;
\* closing restores the parent as the current scope
C12_ScopeStack == [] ScopesRetainTheirOwn /\ [][CloseRestoresParent]_vars

\* the inner scope 2 was closed after vending "s1": "s1" is no longer
\* retained, while the parent is current again and still retains "c1"
C12_Witness ==
    /\ closeRet = [ op |-> "close", scope |-> 2, status |-> napi_ok ]
    /\ << 2, "s1" >> \in vended
    /\ CurrentScope = 1
    /\ handleScopes[1].values = << "c1" >>
    /\ "s1" \notin RetainedByScopes

\* the scope was opened before and is not open now
ClosedScope(id) ==
    /\ id # NoScope
    /\ id < nextScopeId
    /\ \A i \in 1 .. Len(handleScopes) : handleScopes[i].id # id

\* C13: closing a scope that is already closed is reported as an error and
\* changes neither the current scope nor any scope's retained values
C13_DoubleCloseIsError ==
    [][ (closeRet' # closeRet /\ ClosedScope(closeRet'.scope))
        => /\ closeRet'.status # napi_ok
           /\ handleScopes' = handleScopes
           /\ vended' = vended ]_vars

\* a closed scope was closed once more while another scope was open and
\* retaining a value
C13_Witness ==
    /\ closeRet.op = "close"
    /\ closeRet.status = napi_handle_scope_mismatch
    /\ ClosedScope(closeRet.scope)
    /\ RetainedByScopes # {}


-----------------------------------------------------------------------------
\* Destruction of a reference

\* C15: in the destruction of a reference the strong storage is cleared
\* before the weak storage, so whatever runs while the weak storage is torn
\* down sees the strong storage already empty; afterwards both are empty
C15_StrongClearedBeforeWeak ==
    refLife = "deleted" =>
        /\ seenAtWeakClear = Empty
        /\ strongRef = Empty
        /\ weakValueRef = NotSetWeakValue

\* a counted reference that held its live referent strongly was destroyed,
\* and the teardown of its weak storage saw the strong storage empty
C15_Witness ==
    /\ refLife = "deleted"
    /\ refCount >= 1
    /\ ~ cleared
    /\ referent \in heapLive
    /\ seenAtWeakClear = Empty


-----------------------------------------------------------------------------
\* Instance data set more than once

\* the three fields are those of the most recent setInstanceData, and
\* getInstanceData returns its data
InstanceDataIsLastSet ==
    /\ m_instanceData = lastSetArgs.data
    /\ m_instanceDataFinalizer = lastSetArgs.cb
    /\ m_instanceDataFinalizerHint = lastSetArgs.hint
    /\ ret.op = "getInstanceData" => ret.data = lastSetArgs.data

\* setInstanceData invokes no finalizer; a finalizer is invoked by cleanup()
\* only, and it is the last-set finalizer with the last-set data and hint
OnlyLastSetFinalizerRuns ==
    /\ lastSetArgs' # lastSetArgs => envFinalizerCalls' = envFinalizerCalls
    /\ envFinalizerCalls' # envFinalizerCalls =>
          /\ ret'.op = "cleanup"
          /\ lastSetArgs.cb # NULL
          /\ envFinalizerCalls' = Append(envFinalizerCalls, lastSetArgs)

\* C20: setInstanceData overwrites data, finalizer and hint and invokes
\* nothing; after any number of setInstanceData calls getInstanceData()
\* returns the data of the last one and cleanup() invokes the last-set
\* finalizer with the last-set data and hint, and no finalizer that an
\* earlier call registered
C20_LastSetWins == [] InstanceDataIsLastSet /\ [][OnlyLastSetFinalizerRuns]_vars

\* a registration of one finalizer was replaced by one of another finalizer,
\* and the cleanup() after that invoked the later one only
C20_Witness ==
    /\ ret.op = "cleanup"
    /\ ret.fired
    /\ Len(envFinalizerCalls) = 2
    /\ envFinalizerCalls[1].cb # envFinalizerCalls[2].cb
    /\ envFinalizerCalls[2] = lastSetArgs
    /\ lastSetArgs.data # NULL
    /\ firesSinceSet = 1


-----------------------------------------------------------------------------
\* ref() and unref() across a count of 0

\* C17: while the referent is alive value() returns it, in the strong phase
\* after ref() from 0 and again after unref() back to 0; at 0 the strong
\* storage is empty and the weak slot tracks the same referent, so that the
\* collector can reclaim it and the notification that follows can run the
\* finalizer
C17_DemotionKeepsValue ==
    (refLife = "live" /\ ~ cleared) =>
        /\ (referent \in Primitives \/ referent \in heapLive) =>
              /\ value.val = referent
              /\ refCount >= 1 => strongRef = referent
              /\ refCount = 0 =>
                    /\ strongRef = Empty
                    /\ weakValueRef = NapiWeakValue_set(referent)
                    /\ weakImpl = WeakImpl_for(referent)
        /\ (refCount = 0 /\ referent \in heapLive) => ENABLED Collect(referent)
        /\ ( /\ refCount = 0
             /\ referent \in HeapObjects \ heapLive
             /\ weakImpl = "Live"
             /\ Len(refFinalizerCalls) < MaxRefFinalizerCalls ) => ENABLED WeakNotify

\* a reference created with count 0 went through ref() and unref() while its
\* referent was alive: it is weak again, still yields the referent, and has a
\* finalizer waiting for the collector
C17_Witness ==
    /\ refLife = "live"
    /\ initialCount = 0
    /\ nRef = 1
    /\ nUnref = 1
    /\ refCount = 0
    /\ referent \in Cells
    /\ referent \in heapLive
    /\ value = [ from |-> "weakValueRef", val |-> referent ]
    /\ weakImpl = "Live"
    /\ finalizer.finalize_cb # NULL
    /\ refFinalizerCalls = << >>


\* the referent of the reference was a heap object and has been collected
ReferentGone == referent \in HeapObjects \ heapLive

\* once the referent is gone the reference yields the empty value, whatever
\* its count, and ref() is still accepted
GoneYieldsEmpty ==
    (refLife = "live" /\ ReferentGone) =>
        /\ value.val = Empty
        /\ strongRef = Empty
        /\ nRef < MaxRefCalls => ENABLED ref

\* ref() from 0 on a reference whose referent is gone makes the count 1 and
\* the strong storage empty, and leaves the reference usable
RefOnGone ==
    (refLife = "live" /\ ReferentGone /\ refCount = 0 /\ nRef' = nRef + 1) =>
        /\ refCount' = 1
        /\ strongRef' = Empty
        /\ refLife' = "live"
        /\ value'.from = "strongRef"
        /\ value'.val = Empty

\* C18: ref() on a reference with count 0 whose weak slot reports its target
\* gone raises no error: the count becomes 1, the reference is a strong
\* reference to no value, and value() returns the empty value from then on,
\* also after further ref() and unref() calls
C18_RefOnGoneIsEmpty == [] GoneYieldsEmpty /\ [][RefOnGone]_vars

\* the referent was collected while the weak slot still held it, ref() then
\* raised the count from 0, and after a further ref() and unref() value()
\* reads an empty strong storage
C18_Witness ==
    /\ refLife = "live"
    /\ initialCount = 0
    /\ ReferentGone
    /\ weakValueRef.m_tag \in { "Cell", "String" }
    /\ nRef >= 2
    /\ nUnref >= 1
    /\ refCount >= 1
    /\ value = [ from |-> "strongRef", val |-> Empty ]


-----------------------------------------------------------------------------
\* The NapiWeakValue on its own

\* C14: a slot on which setPrimitive(p) was called last returns exactly p
\* from get(), is in the Primitive state and has no weak observation
\* registered, so that the heap has no notification to deliver for it
C14_PrimitiveRoundTrip ==
    slotOp.op = "setPrimitive" =>
        /\ NapiWeakValue_get(weakValueRef) = slotOp.arg
        /\ weakValueRef.m_tag = "Primitive"
        /\ weakImpl = "None"
        /\ slotObservers = 0
        /\ slotNotified = 0
        /\ ~ ENABLED WeakHandleOwner_finalize

\* setPrimitive("p2") was called on a slot that had been observing a cell,
\* and the cell has been collected since
C14_Witness ==
    /\ slotOp = [ op |-> "setPrimitive", arg |-> "p2" ]
    /\ NapiWeakValue_get(weakValueRef) = "p2"
    /\ tagAtDeregister = "Cell"
    /\ "c1" \notin heapLive
    /\ slotObservers = 0

\* exactly one of the four states is active, a weak observation is
\* registered exactly in the Cell and String states, and never two
OneStateOneObserver ==
    /\ weakValueRef.m_tag \in { "NotSet", "Primitive", "Cell", "String" }
    /\ slotObservers \in { 0, 1 }
    /\ slotObservers = 1 <=> IsWeakTag(weakValueRef.m_tag)
    /\ slotNotified <= slotObservers

-----------------------------------------------------------------------------
\* NapiPrototype::subclass

\* a call of subclass that returned an object: the cached structure of
\* newTarget is used exactly when it exists, is of the binding's class and
\* belongs to the requested global object; otherwise a structure is built
\* for this class and global object and cached on newTarget
SubclassReusesIffMatch ==
    (subRet' # subRet /\ ~ subRet'.threw) =>
        LET cached == allocationStructure[subRet'.target]
            match == /\ cached # NoStructure
                     /\ cached.classInfo = ThisClassInfo
                     /\ cached.globalObject = subRet'.globalObject
        IN  /\ subRet'.reused <=> match
            /\ match =>
                  /\ subRet'.structure = cached
                  /\ allocationStructure' = allocationStructure
                  /\ structuresBuilt' = structuresBuilt
            /\ ~ match =>
                  /\ structuresBuilt' = structuresBuilt + 1
                  /\ subRet'.structure = [ id |-> structuresBuilt',
                                           classInfo |-> ThisClassInfo,
                                           globalObject |-> subRet'.globalObject ]
                  /\ allocationStructure' =
                        [ allocationStructure EXCEPT
                             ![subRet'.target] = subRet'.structure ]

\* while the structure the last call used is still the cached one of its
\* newTarget, it is of this class and of the call's global object, and the
\* targets do not share a structure
CachedIsOwn ==
    /\ (subRet.op = "subclass" /\ ~ subRet.threw
          /\ allocationStructure[subRet.target] = subRet.structure) =>
          /\ subRet.structure.classInfo = ThisClassInfo
          /\ subRet.structure.globalObject = subRet.globalObject
    /\ \A t1, t2 \in NewTargets :
          (t1 # t2 /\ allocationStructure[t1] # NoStructure) =>
              allocationStructure[t1] # allocationStructure[t2]

\* C19: subclass(globalObject, newTarget) reuses the structure cached on
\* newTarget if and only if it exists, has the binding's class identity and
\* belongs to globalObject; otherwise it builds a structure and caches it on
\* newTarget, so that a repeated call for the same constructor and global
\* object builds once, and other constructors and global objects get their own
C19_SubclassCache == [] CachedIsOwn /\ [][SubclassReusesIffMatch]_vars

\* each of the two constructors was given a structure of its own, and a
\* further call for one of them reused its structure: two were built in all
C19_Witness ==
    /\ subRet.op = "subclass"
    /\ subRet.reused
    /\ subRet.structure = allocationStructure[subRet.target]
    /\ \A t \in NewTargets : allocationStructure[t].classInfo = ThisClassInfo
    /\ structuresBuilt = 2


====
